---- MODULE Spec2Model ----
(***************************************************************************)
(* Model of uavaustin/Image-Corrector: image_corrector/image.py            *)
(* (AerialImage, Position) and image_corrector/message_handler.py.         *)
(*                                                                         *)
(* Numbers.  Angles are integers in units of pi/12, so pi/2 is Quarter.    *)
(* Floats are fixed-point: the trigonometric tables hold hundredths        *)
(* (Scale), a ground distance returned by get_distance is held in          *)
(* 1/(Scale*Scale) metres, and int() truncates it toward zero to metres.   *)
(*                                                                         *)
(* Free names.  image.py reads rows, cols, image_width and image_height    *)
(* in _warp, and message_handler.py reads message and self in _telemetry,  *)
(* without binding them: Python resolves them in the module namespace at   *)
(* the time of the call and raises NameError when they are not there.      *)
(* Nothing in the two files binds them.  The model takes the namespace as  *)
(* an input of each call: the call either raises NameError or reads the    *)
(* value the namespace holds.  Line 97/98 of image.py (max[...]) is read   *)
(* as the call max(...).                                                   *)
(***************************************************************************)
EXTENDS Integers, Sequences, FiniteSets, TLC

VARIABLES
    newFiles,    \* the file names present in <image_folder>/new/
    current,     \* <image_folder>/current/: file name -> raster, or NoFile
    archive,     \* <image_folder>/archive/<archive_name>/: file name -> raster, or NoFile
    image_list,  \* corrector.image_list: the AerialImage objects built so far
    sent,        \* what corrector.client.send was given, in order
    nsamples,    \* the number of set_position calls made so far
    last,        \* the latest constructor or handler call and how it ended
    call,        \* the pending call of a pure function, or Idle
    ret          \* its result, or Pending

mainVars == <<newFiles, current, archive, image_list, sent, nsamples, last>>

pureVars == <<call, ret>>

vars == <<newFiles, current, archive, image_list, sent, nsamples, last, call, ret>>

----------------------------------------------------------------------------
(* Arithmetic helpers *)

Abs(n) == IF n < 0 THEN -n ELSE n

\* float division a / b of fixed-point values, rounded toward zero
Quot(a, b) ==
    IF (a >= 0) = (b > 0) THEN Abs(a) \div Abs(b) ELSE -(Abs(a) \div Abs(b))

SeqMax(s) == CHOOSE m \in {s[i] : i \in DOMAIN s} : \A i \in DOMAIN s : s[i] <= m

SeqMin(s) == CHOOSE m \in {s[i] : i \in DOMAIN s} : \A i \in DOMAIN s : s[i] >= m

----------------------------------------------------------------------------
(* math: pi, sin, cos, tan, atan, sqrt, ceil *)

\* pi / 2 in angle units
Quarter == 6

\* fixed-point scale of the trigonometric values
Scale == 100

\* the magnitude math.tan takes at pi/2 (1.6e16 in doubles), in fixed point
TanBig == 10000

SinTable == <<26, 50, 71, 87, 97, 100>>

TanTable == <<27, 58, 100, 173, 373>>

\* math.sin on -2*Quarter .. 2*Quarter
Sin(a) ==
    LET m == Abs(a)
        v == IF m = 0 \/ m = 2 * Quarter THEN 0
             ELSE IF m <= Quarter THEN SinTable[m]
             ELSE SinTable[2 * Quarter - m]
    IN  IF a < 0 THEN -v ELSE v

\* math.cos; at pi/2 the double is 6.1e-17, not 0: the smallest fixed-point value
Cos(a) ==
    LET m == Abs(a)
    IN  IF m = 0 THEN Scale
        ELSE IF m < Quarter THEN SinTable[Quarter - m]
        ELSE IF m = Quarter THEN 1
        ELSE -SinTable[m - Quarter]

\* math.tan
Tan(a) ==
    LET m == Abs(a)
        v == IF m = 0 \/ m = 2 * Quarter THEN 0
             ELSE IF m < Quarter THEN TanTable[m]
             ELSE IF m = Quarter THEN TanBig
             ELSE -TanTable[2 * Quarter - m]
    IN  IF a < 0 THEN -v ELSE v

\* math.atan of a fixed-point value v >= 0, to the angle unit below
Atan(v) ==
    LET fits == {a \in 1 .. Quarter - 1 : TanTable[a] <= v}
    IN  IF fits = {} THEN 0 ELSE CHOOSE a \in fits : \A b \in fits : b <= a

\* int(v) of a ground distance: truncation toward zero to whole metres
Trunc(v) == Quot(v, Scale * Scale)

\* ceil(sqrt(a / b)) for a >= 0, b > 0: the least k with k*k*b >= a
CeilSqrt(a, b) == CHOOSE k \in 0 .. a : k * k * b >= a /\ \A j \in 0 .. k - 1 : j * j * b < a

----------------------------------------------------------------------------
(* Position *)

None == << >>

\* the sky test without the offsets added to the magnitudes
PointsAtSkyByMagnitude(pitch, roll, d_pitch, d_roll) ==
    Abs(pitch) >= Quarter \/ Abs(roll) >= Quarter

\* the sky test of Position.get_distance (line 188)
PointsAtSky(pitch, roll, d_pitch, d_roll) ==
    Abs(pitch) + d_pitch >= Quarter \/ Abs(roll) + d_roll >= Quarter

\* Position.get_distance: None, or <<x, y>>
get_distance(self, d_pitch, d_roll) ==
    LET alt == self.alt
        yaw == self.yaw
        pitch == self.pitch + self.cam_pitch + d_pitch
        roll == -self.roll + self.cam_roll + d_roll
        across == Quot(Tan(roll) * Scale, Cos(pitch))
        x == alt * (across * Cos(yaw) + Tan(pitch) * Sin(yaw))
        y == alt * (Tan(pitch) * Cos(yaw) - across * Sin(yaw))
    IN  IF PointsAtSky(pitch, roll, d_pitch, d_roll) THEN None ELSE <<x, y>>

\* the corrector's HORIZ_FOV (pi / 3) and ASPECT_RATIO (3 / 2)
HORIZ_FOV == 4

ASPECT_NUM == 3

ASPECT_DEN == 2

\* vert_fov / 2 = atan(tan(horiz_fov / 2) / aspect_ratio)
HalfVertFov(horiz_fov) == Atan((Tan(horiz_fov \div 2) * ASPECT_DEN) \div ASPECT_NUM)

\* Position.get_corner_distances: None, or the four corners
get_corner_distances(self, horiz_fov) ==
    LET v == HalfVertFov(horiz_fov)
        h == horiz_fov \div 2
        corners == << get_distance(self, v, -h),
                      get_distance(self, v, h),
                      get_distance(self, -v, h),
                      get_distance(self, -v, -h) >>
    IN  IF \E i \in 1 .. 4 : corners[i] = None THEN None ELSE corners

----------------------------------------------------------------------------
(* AerialImage._get_corner_pixels *)

\* the corners shifted relative to the top-left corner instead of the extremes
ShiftedFromTopLeft(corners) ==
    LET x == [i \in 1 .. 4 |-> Trunc(corners[i][1])]
        y == [i \in 1 .. 4 |-> Trunc(corners[i][2])]
    IN  [x |-> [i \in 1 .. 4 |-> x[i] - x[1]],
         y |-> [i \in 1 .. 4 |-> y[1] - y[i]]]

\* lines 127-134: the truncated, shifted corners
Shifted(corners) ==
    LET x == [i \in 1 .. 4 |-> Trunc(corners[i][1])]
        y == [i \in 1 .. 4 |-> Trunc(corners[i][2])]
        min_x == SeqMin(x)
        max_y == SeqMax(y)
    IN  [x |-> [i \in 1 .. 4 |-> x[i] - min_x],
         y |-> [i \in 1 .. 4 |-> max_y - y[i]]]

\* the scale factor rounded down instead of up
ScaleFactorFloor(image_width, image_height, max_x, max_y) ==
    CHOOSE k \in 0 .. 2 * image_width * image_height :
        /\ k * k * max_x * max_y <= 2 * image_width * image_height
        /\ (k + 1) * (k + 1) * max_x * max_y > 2 * image_width * image_height

\* line 139: the scale factor
ScaleFactor(image_width, image_height, max_x, max_y) ==
    CeilSqrt(2 * image_width * image_height, max_x * max_y)

\* lines 136-144 on the shifted corners s with extents max_x, max_y
Scaled(s, max_x, max_y, image_width, image_height) ==
    IF max_x * max_y = 0
    THEN [tag |-> "ZeroDivisionError", corners |-> << >>, k |-> 0]
    ELSE [tag |-> "ok",
          corners |-> [i \in 1 .. 4 |->
              << s.x[i] * ScaleFactor(image_width, image_height, max_x, max_y),
                 s.y[i] * ScaleFactor(image_width, image_height, max_x, max_y) >>],
          k |-> ScaleFactor(image_width, image_height, max_x, max_y)]

ScaledShifted(s, image_width, image_height) ==
    Scaled(s, SeqMax(s.x), SeqMax(s.y), image_width, image_height)

\* lines 124-144 on the corners get_corner_distances returned
CornerPixels(corners, image_width, image_height) ==
    IF corners = None THEN [tag |-> "None", corners |-> << >>, k |-> 0]
    ELSE ScaledShifted(Shifted(corners), image_width, image_height)

\* AerialImage._get_corner_pixels
get_corner_pixels(position, image_width, image_height) ==
    CornerPixels(get_corner_distances(position, HORIZ_FOV), image_width, image_height)

----------------------------------------------------------------------------
(* Inputs of the pure functions *)

MaxDim == 3

MaxAngle == 7

MaxOffset == 2

Idle == [fn |-> "idle"]

Pending == [tag |-> "pending"]

\* ground distances, in 1/(Scale*Scale) metres
GroundVals == {-15000, 5000, 25000}

GroundValsY == {-15000, -5000, 25000}

Footprints ==
    {<< <<c[1], d[1]>>, <<c[2], d[2]>>, <<c[3], d[3]>>, <<c[4], d[4]>> >> :
        c \in [1 .. 4 -> GroundVals], d \in [1 .. 4 -> GroundValsY]}

MaxAlt == 4

Angles == -MaxAngle .. MaxAngle

Offsets == -MaxOffset .. MaxOffset

Attitudes ==
    [alt : {1, MaxAlt}, yaw : {0, 3}, pitch : Angles, roll : Angles,
     cam_pitch : {0, 1}, cam_roll : {0, 1}]

----------------------------------------------------------------------------
(* The state of the program before any image has arrived *)

Files == { <<"a", "JPG">>, <<"b", "JPG">>, <<"c">> }

MaxImages == 2

Exts == {f[2] : f \in {g \in Files : Len(g) >= 2}}

FileNames == (1 .. MaxImages) \X Exts

NoFile == << >>

NoCall ==
    [op |-> "none", file |-> << >>, number |-> 0, sample |-> 0, before |-> << >>,
     error |-> "", msgs |-> << >>, raster_calls |-> 0, dsize |-> << >>,
     did_warp |-> FALSE]

InitMain ==
    /\ newFiles = Files
    /\ current = [n \in FileNames |-> NoFile]
    /\ archive = [n \in FileNames |-> NoFile]
    /\ image_list = << >>
    /\ sent = << >>
    /\ nsamples = 0
    /\ last = NoCall

----------------------------------------------------------------------------
(* AerialImage.__init__ and _save_original *)

MaxSamples == 2

\* corrector.image_count
image_count == Len(image_list)

\* the messages the constructor sends (lines 25-44)
OriginalAlert ==
    [type |-> "image", kind |-> "alert", format |-> "original", status |-> "available",
     number |-> 0]

TelemetryRequest(number) ==
    [type |-> "telemetry", kind |-> "request", format |-> "", status |-> "",
     number |-> number]

\* the alert of set_position (lines 51-58) and of _telemetry (lines 59-66)
WarpedAlert(did_warp) ==
    [type |-> "image", kind |-> "alert", format |-> "warped",
     status |-> IF did_warp THEN "available" ELSE "unavailable", number |-> 0]

\* the constructor removing the new file before _save_original has run
IntakeRemoveFirst(fail) ==
    [named    |-> fail # "split",
     current  |-> fail \notin {"split", "copy_current"},
     archive  |-> fail \notin {"split", "copy_current", "copy_archive"},
     removed  |-> fail # "split",
     msgs     |-> IF fail = "none" THEN <<"alert", "request">> ELSE << >>]

\* How far the constructor gets when the step named by fail raises: "split" is
\* the IndexError of line 15 on a name without a dot, "copy_current" and
\* "copy_archive" are the two copy2 calls of _save_original, "none" is no failure.
Intake(fail) ==
    [named    |-> fail # "split",
     current  |-> fail \notin {"split", "copy_current"},
     archive  |-> fail \notin {"split", "copy_current", "copy_archive"},
     removed  |-> fail = "none",
     msgs     |-> IF fail = "none" THEN <<"alert", "request">> ELSE << >>]

\* the failures a file name admits
Failures(file_name) ==
    IF Len(file_name) < 2 THEN {"split"} ELSE {"copy_current", "copy_archive", "none"}

\* AerialImage(corrector, file_name); on success the caller appends the object
\* to corrector.image_list, where _telemetry looks it up by its number
NewImage(file_name, fail) ==
    LET number == image_count + 1
        did == Intake(fail)
        name == <<number, file_name[2]>>
        msgs == [i \in 1 .. Len(did.msgs) |->
                    IF did.msgs[i] = "alert" THEN OriginalAlert
                    ELSE TelemetryRequest(number)]
    IN  /\ file_name \in newFiles
        /\ image_count < MaxImages
        /\ fail \in Failures(file_name)
        /\ current' = IF did.current THEN [current EXCEPT ![name] = <<file_name>>]
                      ELSE current
        /\ archive' = IF did.archive THEN [archive EXCEPT ![name] = <<file_name>>]
                      ELSE archive
        /\ newFiles' = IF did.removed THEN newFiles \ {file_name} ELSE newFiles
        /\ sent' = sent \o msgs
        /\ image_list' =
              IF fail = "none"
              THEN Append(image_list, [number |-> number, file_name |-> name,
                                       origin |-> file_name, position |-> << >>,
                                       samples |-> << >>])
              ELSE image_list
        /\ last' = [NoCall EXCEPT !.op = "init", !.file = file_name, !.number = number,
                                  !.error = IF fail = "split" THEN "IndexError"
                                            ELSE IF fail = "none" THEN "" ELSE "IOError",
                                  !.msgs = msgs]
        /\ UNCHANGED <<nsamples, pureVars>>

----------------------------------------------------------------------------
(* AerialImage._warp and set_position *)

\* What the environment decides in one call of _warp: the first step to fail
\* ("none": no step fails) and, when the module namespace binds them, the
\* values of image_width and image_height.
\*   "imread"  cv2.imread finds no file under the relative name and returns
\*             None; line 86 raises AttributeError
\*   "alpha"   the image has 3 channels and rows, cols are unbound: NameError
\*   "names"   image_width, image_height are unbound: NameError at line 92
\*   "raster"  cv2.getPerspectiveTransform / cv2.warpPerspective raises
\*   "write"   cv2.imwrite raises
WarpStops == {"imread", "alpha", "names", "raster", "write", "none"}

\* lines 94-116 of _warp, on what _get_corner_pixels returned.  The result: the
\* exception that escapes ("" for none), the value returned, the number of
\* cv2.warpPerspective calls with their dsize, and the raster stored afterwards.
WarpOutcome(raster, sample, stop, corners) ==
    IF stop = "imread" \/ raster = NoFile
    THEN [error |-> "AttributeError", did_warp |-> FALSE, raster_calls |-> 0,
          dsize |-> << >>, raster |-> raster]
    ELSE IF stop \in {"alpha", "names"}
    THEN [error |-> "NameError", did_warp |-> FALSE, raster_calls |-> 0,
          dsize |-> << >>, raster |-> raster]
    ELSE IF corners.tag # "ok"
    THEN [error |-> IF corners.tag = "None" THEN "" ELSE corners.tag,
          did_warp |-> FALSE, raster_calls |-> 0, dsize |-> << >>, raster |-> raster]
    ELSE [error |-> IF stop = "none" THEN "" ELSE "cv2.error",
          did_warp |-> stop = "none",
          raster_calls |-> 1,
          dsize |-> << SeqMax([i \in 1 .. 4 |-> corners.corners[i][1]]),
                       SeqMax([i \in 1 .. 4 |-> corners.corners[i][2]]) >>,
          raster |-> IF stop = "none" THEN Append(raster, sample) ELSE raster]

\* AerialImage._warp on the stored raster, for sample number sample
warp(raster, position, sample, stop, image_width, image_height) ==
    WarpOutcome(raster, sample, stop,
                get_corner_pixels(position, image_width, image_height))

\* the alerts set_position sends after _warp (lines 51-60): none when _warp raised
AlertsAfterWarp(w) == IF w.error = "" THEN <<WarpedAlert(w.did_warp)>> ELSE << >>

\* What the caller of set_position does once it has returned: nothing (a direct
\* call), or lines 59-68 of _telemetry, where did_warp is the None set_position
\* returned and self is read from the module namespace.
\*   "direct"  no caller code follows
\*   "self"    self is unbound: NameError at line 68, nothing is sent
\*   "none"    self is bound: the alert of lines 59-66 is sent
AfterSetPosition(hstop) ==
    [error |-> IF hstop = "self" THEN "NameError" ELSE "",
     alerts |-> IF hstop = "none" THEN <<WarpedAlert(FALSE)>> ELSE << >>]

\* the exception and the alerts of set_position and its caller, given what
\* _warp did
Outcome(w, hstop) ==
    IF w.error = ""
    THEN [error |-> AfterSetPosition(hstop).error,
          alerts |-> AlertsAfterWarp(w) \o AfterSetPosition(hstop).alerts]
    ELSE [error |-> w.error, alerts |-> << >>]

\* the state set_position leaves, given what _warp did (w) and what was sent
\* and raised (o)
SetPositionState(img, position, op, w, o) ==
    /\ image_list' = [image_list EXCEPT ![img.number].position = <<position>>,
                                        ![img.number].samples = Append(@, nsamples + 1)]
    /\ current' = [current EXCEPT ![img.file_name] = w.raster]
    /\ sent' = sent \o o.alerts
    /\ nsamples' = nsamples + 1
    /\ last' = [NoCall EXCEPT !.op = op, !.number = img.number,
                              !.sample = nsamples + 1,
                              !.before = current[img.file_name],
                              !.error = o.error,
                              !.msgs = o.alerts,
                              !.raster_calls = w.raster_calls,
                              !.dsize = w.dsize,
                              !.did_warp = w.did_warp]
    /\ UNCHANGED <<newFiles, archive, pureVars>>

SetPositionDone(img, position, op, hstop, w) ==
    SetPositionState(img, position, op, w, Outcome(w, hstop))

\* AerialImage.set_position on image i, and what its caller does next
SetPositionEffect(i, position, stop, image_width, image_height, op, hstop) ==
    SetPositionDone(image_list[i], position, op, hstop,
                    warp(current[image_list[i].file_name], position, nsamples + 1,
                         stop, image_width, image_height))

\* the attitude samples of the telemetry messages
\* level at two altitudes, and nose up
Positions ==
    [alt : {1, MaxAlt}, yaw : {0}, pitch : {0}, roll : {0},
     cam_pitch : {0}, cam_roll : {0}]
    \cup [alt : {MaxAlt}, yaw : {0}, pitch : {Quarter - 1}, roll : {0},
          cam_pitch : {0}, cam_roll : {0}]

\* the values the namespace may bind image_width and image_height to
Dims == {1, MaxDim}

\* image.set_position(position), called on the object
SetPosition(i, position, stop, image_width, image_height) ==
    /\ i \in 1 .. Len(image_list)
    /\ nsamples < MaxSamples
    /\ SetPositionEffect(i, position, stop, image_width, image_height, "set_position", "direct")

----------------------------------------------------------------------------
(* message_handler._telemetry *)

\* What the module namespace of message_handler.py holds in one call:
\*   "message"  message is unbound: NameError at line 41
\*   "self"     message is bound, self is unbound: NameError at line 68
\*   "none"     both are bound; self._corrector.client is the client
HandlerStops == {"message", "self", "none"}

TelemetryTypes == {"data", "request"}

\* the runs of _telemetry that differ: <<hstop, type, stop>>, where the type is
\* read only when message is bound and _warp runs only on a 'data' message
TelemetryRuns ==
    { <<"message", "data", "none">>, <<"none", "request", "none">> }
    \cup { <<h, "data", stop>> : h \in {"self", "none"}, stop \in WarpStops }

\* _telemetry raising before it reaches set_position
TelemetryRaises(error) ==
    /\ last' = [NoCall EXCEPT !.op = "telemetry", !.error = error]
    /\ UNCHANGED <<newFiles, current, archive, image_list, sent, nsamples, pureVars>>

\* handle_message(client, string) with string of type 'telemetry': message is
\* what the namespace binds, of type type, for image number, with position
Telemetry(hstop, type, number, position, stop, image_width, image_height) ==
    /\ number \in 1 .. MaxImages
    /\ nsamples < MaxSamples
    /\ hstop \in HandlerStops /\ type \in TelemetryTypes /\ stop \in WarpStops
    /\ IF hstop = "message" THEN TelemetryRaises("NameError")
       ELSE IF type # "data" THEN TelemetryRaises("Exception")
       ELSE IF number > Len(image_list) THEN TelemetryRaises("IndexError")
       ELSE SetPositionEffect(number, position, stop, image_width, image_height,
                              "telemetry", hstop)

----------------------------------------------------------------------------
(* The program: images arrive and telemetry messages are handled *)

Init == InitMain /\ call = Idle /\ ret = Pending

Next ==
    \/ \E f \in Files, fail \in {"split", "copy_current", "copy_archive", "none"} :
          NewImage(f, fail)
    \/ \E i \in 1 .. MaxImages, p \in Positions, stop \in WarpStops, d \in Dims :
          SetPosition(i, p, stop, d, d)
    \/ \E run \in TelemetryRuns, n \in 1 .. MaxImages, p \in Positions, d \in Dims :
          Telemetry(run[1], run[2], n, p, run[3], d, d)

Spec == Init /\ [][Next]_vars

----------------------------------------------------------------------------
(* Claims about the constructor and the telemetry handler, under Spec *)

\* set_position was entered by the latest call
Handled == last.op \in {"set_position", "telemetry"} /\ last.sample > 0

LastImage == image_list[last.number]

LastPosition == LastImage.position[1]

\* the statuses of the warped-format alerts the latest call sent
LastAlerts ==
    LET warped == SelectSeq(last.msgs, LAMBDA m : m.format = "warped")
    IN  [j \in 1 .. Len(warped) |-> warped[j].status]

AllUnavailable ==
    LastAlerts # << >> /\ \A j \in 1 .. Len(LastAlerts) : LastAlerts[j] = "unavailable"

\* one of the four corner sight lines of position p is Sky
HasSkyCorner(p) ==
    \E d_pitch \in {HalfVertFov(HORIZ_FOV), -HalfVertFov(HORIZ_FOV)},
       d_roll \in {HORIZ_FOV \div 2, -(HORIZ_FOV \div 2)} :
        get_distance(p, d_pitch, d_roll) = None

\* C4 as stated: for a sample with a Sky corner the footprint is HorizonVisible,
\* the warp makes no rasterizer call, the stored image is unchanged and the
\* outcome is reported as unavailable.
C4_HorizonVisibleReported ==
    (Handled /\ HasSkyCorner(LastPosition)) =>
        /\ get_corner_distances(LastPosition, HORIZ_FOV) = None
        /\ last.raster_calls = 0
        /\ current[LastImage.file_name] = last.before
        /\ ~last.did_warp
        /\ AllUnavailable

\* C6 as stated: once two samples have been submitted for an image, the stored
\* raster is the original warped by the later sample alone (or the original,
\* when the later sample gave no warp); the earlier sample's result neither
\* remains nor is part of it.
C6_LatestSampleWins ==
    \A i \in 1 .. Len(image_list) :
        LET img == image_list[i]
        IN  Len(img.samples) >= 2 =>
                current[img.file_name] \in
                    { <<img.origin>>, <<img.origin, img.samples[Len(img.samples)]>> }

\* C7 as stated: handling one telemetry data message makes exactly one
\* rasterizer call when the footprint resolves, and sends exactly one
\* warped-format alert, 'available' exactly when the warp succeeded.
C7_OneNotificationPerSample ==
    (last.op = "telemetry" /\ last.sample > 0) =>
        /\ Len(LastAlerts) = 1
        /\ (LastAlerts[1] = "available") <=> last.did_warp
        /\ get_corner_pixels(LastPosition, 1, 1).tag = "ok" => last.raster_calls = 1

\* C8 as stated: after any successful warps the original raster stored at
\* creation is still retrievable unchanged, and every warp took the original,
\* not an earlier warp's output, as its source.
C8_OriginalPreserved ==
    \A i \in 1 .. Len(image_list) :
        LET img == image_list[i]
        IN  /\ archive[img.file_name] = <<img.origin>>
            /\ Len(current[img.file_name]) \in {1, 2}
            /\ current[img.file_name][1] = img.origin

\* C9 as stated: when the rasterizer, or the image read or write around it,
\* fails during a warp, the sample ends with 'warp unavailable' reported and
\* the stored image as it was.
C9_RasterFailureReported ==
    (Handled /\ last.error \in {"cv2.error", "AttributeError"}) =>
        /\ AllUnavailable
        /\ current[LastImage.file_name] = last.before

\* C10: when the constructor removes the file from /new/, /current/ and
\* /archive/ both hold its copy and the call sent the 'original available'
\* alert and then the telemetry request with the image's number; when a copy
\* fails, the file is still in /new/ and the call sent nothing.
C10_IntakeOrdered ==
    last.op = "init" =>
        /\ last.file \notin newFiles =>
              /\ current[<<last.number, last.file[2]>>] = <<last.file>>
              /\ archive[<<last.number, last.file[2]>>] = <<last.file>>
              /\ last.msgs = <<OriginalAlert, TelemetryRequest(last.number)>>
        /\ last.error # "" => last.file \in newFiles /\ last.msgs = << >>
        /\ Len(sent) >= Len(last.msgs)
        /\ SubSeq(sent, Len(sent) - Len(last.msgs) + 1, Len(sent)) = last.msgs

C10_Witness ==
    /\ last.op = "init"
    /\ last.number = 2
    /\ last.file \notin newFiles
    /\ last.error = ""
    /\ Len(sent) >= 4

----------------------------------------------------------------------------
(* AerialImage._get_corner_pixels as a function of the footprint *)

InitMapper ==
    /\ InitMain
    /\ call \in [fn : {"get_corner_pixels"}, corners : Footprints,
                 image_width : 1 .. MaxDim, image_height : 1 .. MaxDim]
    /\ ret = Pending

CallCornerPixels ==
    /\ call.fn = "get_corner_pixels"
    /\ ret = Pending
    /\ ret' = CornerPixels(call.corners, call.image_width, call.image_height)
    /\ UNCHANGED <<call, mainVars>>

NextMapper == CallCornerPixels

SpecMapper == InitMapper /\ [][NextMapper]_vars

(* Position.get_distance as a function of the attitude and the offsets *)

InitDistance ==
    /\ InitMain
    /\ call \in [fn : {"get_distance"}, self : Attitudes,
                 d_pitch : Offsets, d_roll : Offsets]
    /\ ret = Pending

CallDistance ==
    /\ call.fn = "get_distance"
    /\ ret = Pending
    /\ ret' = [tag |-> "returned", value |-> get_distance(call.self, call.d_pitch, call.d_roll)]
    /\ UNCHANGED <<call, mainVars>>

NextDistance == CallDistance

SpecDistance == InitDistance /\ [][NextDistance]_vars

----------------------------------------------------------------------------
(* Claims about _get_corner_pixels, under SpecMapper *)

Returned == ret # Pending /\ ret.tag = "ok"

Xs == [i \in 1 .. 4 |-> ret.corners[i][1]]

Ys == [i \in 1 .. 4 |-> ret.corners[i][2]]

\* the canvas extent, as _warp reads it off the corners (lines 97-98)
NewWidth == SeqMax(Xs)

NewHeight == SeqMax(Ys)

SourceArea == call.image_width * call.image_height

\* the shifted extents maxX, maxY of the call
ExtentX == SeqMax(Shifted(call.corners).x)

ExtentY == SeqMax(Shifted(call.corners).y)

\* C1: whenever _get_corner_pixels returns corners (both shifted extents
\* non-zero, width and height positive), all four pixel corners have x >= 0
\* and y >= 0, one of them has x = 0 and one of them has y = 0.
C1_CornersNonNegativeAndAnchored ==
    Returned =>
        /\ \A i \in 1 .. 4 : Xs[i] >= 0 /\ Ys[i] >= 0
        /\ \E i \in 1 .. 4 : Xs[i] = 0
        /\ \E i \in 1 .. 4 : Ys[i] = 0

C1_Witness ==
    /\ Returned
    /\ ret.k >= 2
    /\ \E i \in 1 .. 4 : Trunc(call.corners[i][1]) < 0
    /\ \E i \in 1 .. 4 : Ys[i] > 0 /\ Xs[i] > 0

\* C2 as stated: the canvas area is >= 2*w*h and < 8*w*h, and k is the
\* smallest scale meeting the lower bound.
C2_Original ==
    Returned =>
        /\ NewWidth * NewHeight >= 2 * SourceArea
        /\ NewWidth * NewHeight < 8 * SourceArea
        /\ (ret.k - 1) * (ret.k - 1) * ExtentX * ExtentY < 2 * SourceArea

\* C2 amended: the canvas area is >= 2*w*h, k is the smallest positive integer
\* scale meeting that bound, and the area is < 8*w*h exactly when the unscaled
\* footprint maxX*maxY is itself < 8*w*h (otherwise k = 1).
C2_AreaBounds ==
    Returned =>
        /\ ret.k >= 1
        /\ NewWidth = ret.k * ExtentX /\ NewHeight = ret.k * ExtentY
        /\ NewWidth * NewHeight >= 2 * SourceArea
        /\ (ret.k - 1) * (ret.k - 1) * ExtentX * ExtentY < 2 * SourceArea
        /\ (NewWidth * NewHeight < 8 * SourceArea) <=> (ExtentX * ExtentY < 8 * SourceArea)
        /\ ExtentX * ExtentY >= 8 * SourceArea => ret.k = 1

C2_Witness ==
    /\ Returned
    /\ ret.k >= 3
    /\ NewWidth * NewHeight > 2 * SourceArea
    /\ ExtentX # ExtentY

\* C3 as stated: a footprint with zero extent on an axis ends in an explicit
\* DegenerateFootprint rejection; the division of line 139 is never evaluated
\* with a zero denominator.
C3_DegenerateRejected ==
    (ret # Pending /\ (ExtentX = 0 \/ ExtentY = 0)) =>
        /\ ret.tag = "DegenerateFootprint"
        /\ ret.tag # "ZeroDivisionError"

----------------------------------------------------------------------------
(* Claims about get_distance, under SpecDistance *)

EffPitch == call.self.pitch + call.self.cam_pitch + call.d_pitch

EffRoll == -call.self.roll + call.self.cam_roll + call.d_roll

IsSky == ret.value = None

IsGround == Len(ret.value) = 2 /\ ret.value[1] \in Int /\ ret.value[2] \in Int

====
